---- MODULE Spec2Model ----
(***************************************************************************)
(* Model of bindings/python/examples/data_collect/data_collect.py: the     *)
(* start-up sequence the script drives a ToF camera through.  The script   *)
(* is one linear pass; every statement group of __main__ is one step.      *)
(* The SDK (aditofpython) is external: each call's returned status and the *)
(* list it fills are inputs drawn from small sets.  A status is modelled   *)
(* by its truth value, which is all the script ever tests (`not status`).  *)
(* An uncaught Python exception (NameError on an unbound name, IndexError  *)
(* on cameras[0]) ends the run in pc = "raised".                           *)
(*                                                                         *)
(* `run` is the run under study.  `twin` is a second run of the script fed *)
(* the very same provider responses, used to compare two runs that differ  *)
(* only in the requested frame type; under Spec it is switched off.        *)
(***************************************************************************)
EXTENDS Integers, Sequences, FiniteSets, TLC

VARIABLES run, twin

vars == <<run, twin>>

\* ---------------------------------------------------------------- bounds
MaxCameras == 2
MaxModeNames == 2

\* ------------------------------------------------------ program constants
IP == "10.42.0.1"
FRAME_TYPES == <<"raw", "depth", "ir", "conf">>

\* parser.add_argument defaults and the values the user can pass
None == "<None>"
Unbound == "<unbound>"
NoException == "<none>"
Discarded == "<discarded>"

ModeIds == {4}
ModeNames == {"short-range native", "pcm-native"}
FirmwareArgs == {None, "fw.bin"}

Args ==
  [config : {"config.json"}, folder : {"./"}, ncapture : {1},
   mode : ModeIds, warmup_time : {0}, ip : {IP},
   firmware : FirmwareArgs,
   frame_type : {FRAME_TYPES[i] : i \in 1..Len(FRAME_TYPES)}]

\* ------------------------------------------------------ provider responses
SeqUpTo(S, n) == UNION {[1..k -> S] : k \in 0..n}

\* the devices getCameraList appends, in discovery order
Devices == <<"dev0", "dev1", "dev2", "dev3">>
CameraLists == {SubSeq(Devices, 1, k) : k \in 0..MaxCameras}
\* what getAvailableFrameTypes appends: nothing, or the frame types
FrameTypeLists == {<<>>, FRAME_TYPES}
ModeNameLists == SeqUpTo(ModeNames, MaxModeNames)

\* ------------------------------------------------------------- helpers
Truthy(x) == x \notin {None, ""}

Emit(s, msg) == [s EXCEPT !.out = Append(@, msg)]

EmitIf(s, cond, msg) == IF cond THEN Emit(s, msg) ELSE s

Call(s, op, on, arg, ret) ==
  [s EXCEPT !.calls = Append(@, [op |-> op, on |-> on, arg |-> arg, ret |-> ret]),
            !.status = IF op = "enableDepthCompute" THEN @ ELSE ret]

Goto(s, p) == [s EXCEPT !.pc = p]

Raise(s, e) == [s EXCEPT !.pc = "raised", !.exc = e]

\* ------------------------------------------------- statements of __main__
\* Each operator maps the interpreter state s to the state after the
\* statement group, given what the provider answers.

\* try: system = tof.System() / except: print(...)
NewSystem(s, ok) ==
  IF ok THEN Goto([s EXCEPT !.system = TRUE], "L74")
        ELSE Goto(Emit(s, "Failed to create system"), "L74")

\* cameras = []; status = system.getCameraList(cameras, "ip:" + args.ip)
GetCameraList(s, st, cams) ==
  IF ~s.system THEN Raise(s, "NameError")
  ELSE LET c == Call([s EXCEPT !.cameras = cams], "getCameraList", "system",
                     <<"ip:", s.args.ip>>, st)
       IN Goto(EmitIf(c, ~st, "system.getCameraList(): "), "L79")

\* variant: the last discovered device, cameras[-1]
SelectCamera_Last(s) ==
  IF Len(s.cameras) = 0 THEN Raise(s, "IndexError")
  ELSE Goto([s EXCEPT !.camera1 = s.cameras[Len(s.cameras)]], "L80")

\* camera1 = cameras[0]
SelectCamera(s) ==
  IF Len(s.cameras) = 0 THEN Raise(s, "IndexError")
  ELSE Goto([s EXCEPT !.camera1 = s.cameras[1]], "L80")

\* status = camera1.initialize(args.config)
InitializeConfig(s, st) ==
  LET c == Call(s, "initialize", s.camera1, <<s.args.config>>, st)
  IN Goto(EmitIf(c, ~st, "camera1.initialize()"), "L84")

\* status = camera1.initialize()
InitializeDefault(s, st) ==
  LET c == Call(s, "initialize", s.camera1, <<>>, st)
  IN Goto(EmitIf(c, ~st, "camera1.initialize()"), "L88")

\* cam_details = tof.CameraDetails(); status = camera1.getDetails(cam_details)
GetDetails(s, st) ==
  LET c == Call(s, "getDetails", s.camera1, <<>>, st)
  IN Goto(Emit(EmitIf(c, ~st, "camera1.getDetails()"), "Camera ID"), "L94")

\* variant: the update is attempted whether or not -fw was given
UpdateFirmware_Always(s, st) ==
  LET c == Call(s, "adsd3500UpdateFirmware", s.camera1, <<s.args.firmware>>, st)
  IN Goto(Emit(c, IF ~st THEN "Could not update the Adsd3500 firmware"
                         ELSE "Please reboot the board"), "L101")

\* if (args.firmware): status = camera1.adsd3500UpdateFirmware(args.firmware)
UpdateFirmware(s, st) ==
  IF Truthy(s.args.firmware)
  THEN LET c == Call(s, "adsd3500UpdateFirmware", s.camera1,
                     <<s.args.firmware>>, st)
       IN Goto(Emit(c, IF ~st THEN "Could not update the Adsd3500 firmware"
                              ELSE "Please reboot the board"), "L101")
  ELSE Goto(s, "L101")

\* variant: only the status is tested, not len(frame_types) == 0
GetAvailableFrameTypes_StatusOnly(s, st, fts) ==
  LET c == Call([s EXCEPT !.frame_types = fts], "getAvailableFrameTypes",
                s.camera1, <<>>, st)
  IN Goto(Emit(c, IF ~st THEN "Cound not aquire frame types"
                         ELSE "available frame_types"), "L108")

\* frame_types = []; status = camera1.getAvailableFrameTypes(frame_types)
GetAvailableFrameTypes(s, st, fts) ==
  LET c == Call([s EXCEPT !.frame_types = fts], "getAvailableFrameTypes",
                s.camera1, <<>>, st)
  IN Goto(Emit(c, IF ~st \/ Len(fts) = 0 THEN "Cound not aquire frame types"
                                         ELSE "available frame_types"), "L108")

\* mode_names = []
ClearModeNames(s) == Goto([s EXCEPT !.mode_names = <<>>], "L109")

\* variant: the query is repeated although the first answer is already known
ResolveModeNames_Requery(s, st, names) ==
  LET c == Call([s EXCEPT !.mode_names = names], "getFrameTypeNameFromId",
                s.camera1, <<s.args.mode>>, st)
      d == Call(c, "getFrameTypeNameFromId", s.camera1, <<s.args.mode>>, st)
      e == EmitIf(Emit(d, "mode_id"), ~st, "Mode is invalid for this type of camera")
  IN Goto(Emit(e, "mode_names"), "L116")

\* if len(mode_names) == 0: status = camera1.getFrameTypeNameFromId(...)
\* print(f'mode_names: {mode_names}')
ResolveModeNames(s, st, names) ==
  IF Len(s.mode_names) = 0
  THEN LET c == Call([s EXCEPT !.mode_names = names], "getFrameTypeNameFromId",
                     s.camera1, <<s.args.mode>>, st)
           d == EmitIf(Emit(c, "mode_id"), ~st, "Mode is invalid for this type of camera")
       IN Goto(Emit(d, "mode_names"), "L116")
  ELSE Goto(Emit(s, "mode_names"), "L116")

\* variant: first-wins, mode_names[0]
PickModeName_First(s) ==
  IF Len(s.mode_names) > 0
  THEN Goto([s EXCEPT !.mode_name = s.mode_names[1]], "L118")
  ELSE Goto(s, "L118")

\* if len(mode_names) > 0: mode_name = mode_names[-1]
PickModeName(s) ==
  IF Len(s.mode_names) > 0
  THEN Goto([s EXCEPT !.mode_name = s.mode_names[Len(s.mode_names)]], "L118")
  ELSE Goto(s, "L118")

\* frame_type = args.frame_type; if frame_type == 'raw': enableDepthCompute(False)
\* variant: the decision is taken on the frame type as the override leaves it
DepthComputeForRaw_AfterOverride(s) ==
  LET f == [s EXCEPT !.frame_type = s.args.frame_type]
  IN IF f.frame_type = "raw" /\ s.mode_name # "pcm-native"
     THEN Goto(Call(f, "enableDepthCompute", s.camera1, <<FALSE>>, Discarded), "L121")
     ELSE Goto(f, "L121")

\* (the value enableDepthCompute returns is not assigned)
DepthComputeForRaw(s) ==
  LET f == [s EXCEPT !.frame_type = s.args.frame_type]
  IN IF f.frame_type = "raw"
     THEN Goto(Call(f, "enableDepthCompute", s.camera1, <<FALSE>>, Discarded), "L121")
     ELSE Goto(f, "L121")

\* variant: the override is written back into the parsed arguments
OverrideFrameType_IntoArgs(s) ==
  IF s.frame_type # "ir"
  THEN IF s.mode_name = Unbound THEN Raise(s, "NameError")
       ELSE IF s.mode_name = "pcm-native"
            THEN Goto([Emit(s, "setting --ft (frameType) to ir")
                        EXCEPT !.frame_type = "ir", !.args.frame_type = "ir"], "L126")
            ELSE Goto(s, "L126")
  ELSE Goto(s, "L126")

\* variant: the test frame_type != 'ir' is dropped
OverrideFrameType_NoIrTest(s) ==
  IF s.mode_name = Unbound THEN Raise(s, "NameError")
  ELSE IF s.mode_name = "pcm-native"
       THEN Goto([Emit(s, "setting --ft (frameType) to ir") EXCEPT !.frame_type = "ir"], "L126")
       ELSE Goto(s, "L126")

\* if frame_type != 'ir' and mode_name == 'pcm-native': ... frame_type = 'ir'
OverrideFrameType(s) ==
  IF s.frame_type # "ir"
  THEN IF s.mode_name = Unbound THEN Raise(s, "NameError")
       ELSE IF s.mode_name = "pcm-native"
            THEN Goto([Emit(s, "setting --ft (frameType) to ir") EXCEPT !.frame_type = "ir"], "L126")
            ELSE Goto(s, "L126")
  ELSE Goto(s, "L126")

\* variant: the camera is started before the frame type is set
SetFrameType_StartFirst(s, st) ==
  IF s.mode_name = Unbound THEN Raise(s, "NameError")
  ELSE LET b == Call(s, "start", s.camera1, <<>>, st)
           c == Call(b, "setFrameType", s.camera1, <<s.mode_name>>, st)
       IN Goto(EmitIf(c, ~st, "Could not set camera frame type"), "L130")

\* variant: the adjusted frame type is applied instead of the mode name
SetFrameType_WithFrameType(s, st) ==
  LET c == Call(s, "setFrameType", s.camera1, <<s.frame_type>>, st)
  IN Goto(EmitIf(c, ~st, "Could not set camera frame type"), "L130")

\* status = camera1.setFrameType(mode_name)
SetFrameType(s, st) ==
  IF s.mode_name = Unbound THEN Raise(s, "NameError")
  ELSE LET c == Call(s, "setFrameType", s.camera1, <<s.mode_name>>, st)
       IN Goto(EmitIf(c, ~st, "Could not set camera frame type"), "L130")

\* variant: a failed start is tried once more
Start_Retry(s, st) ==
  LET c == Call(s, "start", s.camera1, <<>>, st)
  IN IF ~st /\ ~(\E i \in 1..Len(s.calls) : s.calls[i].op = "start")
     THEN Goto(Emit(c, "Could not start camera"), "L130")
     ELSE Goto(EmitIf(c, ~st, "Could not start camera"), "L134")

\* status = camera1.start()
Start(s, st) ==
  LET c == Call(s, "start", s.camera1, <<>>, st)
  IN Goto(EmitIf(c, ~st, "Could not start camera"), "L134")

\* print('Done')
Done(s) == Goto(Emit(s, "Done"), "exit")

\* ------------------------------------------------------------ the runs
\* state of the interpreter right after args = parser.parse_args()
Parsed(a) ==
  [pc |-> "L69", args |-> a, system |-> FALSE, cameras |-> <<>>,
   camera1 |-> Unbound, status |-> TRUE, frame_types |-> <<>>,
   mode_names |-> <<>>, mode_name |-> Unbound, frame_type |-> Unbound,
   out |-> <<>>, calls |-> <<>>, exc |-> NoException]

\* both runs take the statement at label p with the same provider answer
\* (r, t: the statement's result in run and in twin)
Lockstep(p, r, t) ==
  /\ p \in {run.pc, twin.pc}
  /\ run' = IF run.pc = p THEN r ELSE run
  /\ twin' = IF twin.pc = p THEN t ELSE twin

Init ==
  \E a \in Args :
    /\ run = Parsed(a)
    /\ twin = [Parsed(a) EXCEPT !.pc = "off"]

\* two runs that differ only in the requested frame type (each unordered
\* pair of frame types once, run taking the one listed first in FRAME_TYPES;
\* no -fw, so line 94 is passed without a call in both)
InitPair ==
  \E a \in Args : \E i, j \in 1..Len(FRAME_TYPES) :
    /\ i < j
    /\ a.frame_type = FRAME_TYPES[i]
    /\ a.firmware = None
    /\ run = Parsed(a)
    /\ twin = Parsed([a EXCEPT !.frame_type = FRAME_TYPES[j]])

L69 == \E ok \in BOOLEAN : Lockstep("L69", NewSystem(run, ok), NewSystem(twin, ok))

L74 == \E st \in BOOLEAN : \E cams \in CameraLists :
         Lockstep("L74", GetCameraList(run, st, cams), GetCameraList(twin, st, cams))

L79 == Lockstep("L79", SelectCamera(run), SelectCamera(twin))

L80 == \E st \in BOOLEAN : Lockstep("L80", InitializeConfig(run, st), InitializeConfig(twin, st))

L84 == \E st \in BOOLEAN : Lockstep("L84", InitializeDefault(run, st), InitializeDefault(twin, st))

L88 == \E st \in BOOLEAN : Lockstep("L88", GetDetails(run, st), GetDetails(twin, st))

L94 == \E st \in BOOLEAN : Lockstep("L94", UpdateFirmware(run, st), UpdateFirmware(twin, st))

\* (a twin started on the same request as run is there to compare two answers
\* to this query: it is given another answer than run; otherwise the same)
L101 == \E st, st2 \in BOOLEAN : \E fts, fts2 \in FrameTypeLists :
          /\ IF twin.pc = "L101" /\ twin.args = run.args
             THEN <<st2, fts2>> # <<st, fts>>
             ELSE <<st2, fts2>> = <<st, fts>>
          /\ Lockstep("L101", GetAvailableFrameTypes(run, st, fts),
                      GetAvailableFrameTypes(twin, st2, fts2))

L108 == Lockstep("L108", ClearModeNames(run), ClearModeNames(twin))

L109 == \E st \in BOOLEAN : \E names \in ModeNameLists :
          Lockstep("L109", ResolveModeNames(run, st, names), ResolveModeNames(twin, st, names))

L116 == Lockstep("L116", PickModeName(run), PickModeName(twin))

L118 == Lockstep("L118", DepthComputeForRaw(run), DepthComputeForRaw(twin))

L121 == Lockstep("L121", OverrideFrameType(run), OverrideFrameType(twin))

L126 == \E st \in BOOLEAN : Lockstep("L126", SetFrameType(run, st), SetFrameType(twin, st))

L130 == \E st \in BOOLEAN : Lockstep("L130", Start(run, st), Start(twin, st))

L134 == Lockstep("L134", Done(run), Done(twin))

Next ==
  \/ L69 \/ L74 \/ L79 \/ L80 \/ L84 \/ L88 \/ L94 \/ L101
  \/ L108 \/ L109 \/ L116 \/ L118 \/ L121 \/ L126 \/ L130 \/ L134

Spec == Init /\ [][Next]_vars

SpecPair == InitPair /\ [][Next]_vars

\* the requests that take each branch of lines 119 and 121 both ways:
\* raw (depth-compute call, override possible) and ir (neither)
InitFair ==
  \E a \in Args :
    /\ a.frame_type \in {"raw", "ir"}
    /\ run = Parsed(a)
    /\ twin = [Parsed(a) EXCEPT !.pc = "off"]

\* two runs of one request (no -fw) that are answered alike by the provider
\* except by getAvailableFrameTypes
InitQuery ==
  \E a \in Args :
    /\ a.firmware = None
    /\ run = Parsed(a)
    /\ twin = Parsed(a)

SpecQuery == InitQuery /\ [][Next]_vars

\* the interpreter keeps executing and every blocking provider call returns
FairSpec == InitFair /\ [][Next]_vars /\ WF_vars(Next)

\* ------------------------------------------------------------ properties
Terminated(s) == s.pc \in {"exit", "raised"}

Printed(s, msg) == \E i \in 1..Len(s.out) : s.out[i] = msg

CallsOf(s, op) == SelectSeq(s.calls, LAMBDA c : c.op = op)

ArgsOf(s, op) == [i \in 1..Len(CallsOf(s, op)) |-> CallsOf(s, op)[i].arg]

\* the line the script prints when the status of op is falsy
Diagnostic(op) ==
  CASE op = "getCameraList" -> "system.getCameraList(): "
    [] op = "initialize" -> "camera1.initialize()"
    [] op = "getDetails" -> "camera1.getDetails()"
    [] op = "adsd3500UpdateFirmware" -> "Could not update the Adsd3500 firmware"
    [] op = "getAvailableFrameTypes" -> "Cound not aquire frame types"
    [] op = "getFrameTypeNameFromId" -> "Mode is invalid for this type of camera"
    [] op = "setFrameType" -> "Could not set camera frame type"
    [] op = "start" -> "Could not start camera"

StatusOps ==
  {"getCameraList", "initialize", "getDetails", "getAvailableFrameTypes",
   "getFrameTypeNameFromId", "setFrameType", "start"}

\* the steps from 116 on have begun: mode_name is what line 117 left it
ModeNamePicked(s) == s.pc = "L118" \/ s.frame_type # Unbound

\* lines 118-124 have been executed (or line 121 raised)
AdjustDone(s) == s.frame_type # Unbound /\ s.pc # "L121"

ResolvedEmpty(s) ==
  Len(CallsOf(s, "getFrameTypeNameFromId")) = 1 /\ s.mode_names = <<>>

\* a query that appended nothing to its list has returned a failing status
EmptyMeansFailed(s) ==
  \A i \in 1..Len(s.calls) :
    \/ s.calls[i].op = "getCameraList" /\ s.cameras = <<>> /\ s.calls[i].ret
    \/ s.calls[i].op = "getFrameTypeNameFromId" /\ s.mode_names = <<>> /\ s.calls[i].ret
    => FALSE

\* C1: once the system exists, whatever statuses the provider returns (a
\* query that finds nothing reporting failure), the run raises nothing, every
\* failing status-returning call has its diagnostic in the output, and the
\* run ends with every step invoked and 'Done' printed last.
C1_StatusFailuresNeverAbort ==
  (run.system /\ EmptyMeansFailed(run)) =>
    /\ run.exc = NoException
    /\ \A i \in 1..Len(run.calls) :
         (run.calls[i].op # "enableDepthCompute" /\ ~run.calls[i].ret)
           => Printed(run, Diagnostic(run.calls[i].op))
    /\ Terminated(run) =>
         /\ \A op \in StatusOps : Len(CallsOf(run, op)) > 0
         /\ run.out[Len(run.out)] = "Done"

\* C2: every finished run has called initialize exactly twice, first with
\* the config path and then with no argument.
C2_InitializeTwiceInEveryRun ==
  Terminated(run) => ArgsOf(run, "initialize") = << <<run.args.config>>, <<>> >>

\* C3: after the frame-type adjustment, the effective frame type is ir with
\* the warning logged when the mode name is pcm-native and the requested type
\* is not ir; otherwise it is the requested type and no warning is logged.
C3_PcmNativeOverride ==
  AdjustDone(run) =>
    IF run.mode_name = "pcm-native" /\ run.args.frame_type # "ir"
    THEN /\ run.frame_type = "ir"
         /\ Printed(run, "setting --ft (frameType) to ir")
    ELSE /\ run.frame_type = run.args.frame_type
         /\ ~Printed(run, "setting --ft (frameType) to ir")

C3_Witness ==
  /\ run.pc = "L126"
  /\ run.mode_name = "pcm-native"
  /\ run.args.frame_type = "depth"
  /\ run.frame_type = "ir"

\* C4: a finished run that requested raw has called enableDepthCompute(False)
\* exactly once, and at no time has setFrameType or start been called before it.
C4_DepthComputeDisabledOnceForRaw ==
  run.args.frame_type = "raw" =>
    /\ Terminated(run) => ArgsOf(run, "enableDepthCompute") = << <<FALSE>> >>
    /\ \A i, j \in 1..Len(run.calls) :
         (run.calls[i].op \in {"setFrameType", "start"}
            /\ run.calls[j].op = "enableDepthCompute") => j < i

\* C5: whenever the resolution left a non-empty sequence of names, the mode
\* name picked is its last element, whatever status the query returned.
C5_LastModeNameWins ==
  (ModeNamePicked(run) /\ Len(run.mode_names) > 0)
    => run.mode_name = run.mode_names[Len(run.mode_names)]

C5_Witness ==
  /\ ModeNamePicked(run)
  /\ Len(run.mode_names) = 2
  /\ run.mode_names[1] = "pcm-native"
  /\ run.mode_name = "short-range native"
  /\ ~CallsOf(run, "getFrameTypeNameFromId")[1].ret

\* C6: a step issues getFrameTypeNameFromId only at the resolution step and
\* only when mode_names is empty there; with a non-empty mode_names the step
\* issues nothing; the query is issued at most once in a run.
C6_ResolutionQueryGuarded ==
  [][ LET before == Len(CallsOf(run, "getFrameTypeNameFromId"))
          after == Len(CallsOf(run', "getFrameTypeNameFromId"))
      IN /\ after <= 1
         /\ after > before => (run.pc = "L109" /\ Len(run.mode_names) = 0)
         /\ (run.pc = "L109" /\ Len(run.mode_names) > 0) => after = before
    ]_vars

C6_Witness ==
  /\ run.pc = "L116"
  /\ Len(CallsOf(run, "getFrameTypeNameFromId")) = 1
  /\ Len(run.mode_names) > 0

\* C7: when discovery has returned an empty device list, nothing is raised
\* and the finished run has gone through the later steps to 'Done'.
C7_EmptyDiscoveryNotRaised ==
  (Len(CallsOf(run, "getCameraList")) = 1 /\ run.cameras = <<>>) =>
    /\ run.exc = NoException
    /\ Terminated(run) =>
         /\ Len(CallsOf(run, "initialize")) = 2
         /\ Len(CallsOf(run, "start")) = 1
         /\ Printed(run, "Done")

\* C8: when constructing the system failed and was logged, nothing is raised
\* and the finished run has done discovery and the later steps.
C8_SystemFailureContinues ==
  Printed(run, "Failed to create system") =>
    /\ run.exc = NoException
    /\ Terminated(run) =>
         /\ Len(CallsOf(run, "getCameraList")) = 1
         /\ Len(CallsOf(run, "start")) = 1
         /\ Printed(run, "Done")

\* C9: when the resolution yielded no names, nothing is raised and the
\* finished run has called setFrameType and start and printed 'Done'.
C9_EmptyResolutionProceeds ==
  ResolvedEmpty(run) =>
    /\ run.exc = NoException
    /\ Terminated(run) =>
         /\ Len(CallsOf(run, "setFrameType")) = 1
         /\ Len(CallsOf(run, "start")) = 1
         /\ Printed(run, "Done")

\* C10: setFrameType receives the mode name picked at line 117, never the
\* adjusted frame type, and two runs fed the same provider answers that
\* differ only in the requested frame type pass it the same argument.
C10_SetFrameTypeIgnoresFrameType ==
  /\ \A s \in {run, twin} : \A i \in 1..Len(s.calls) :
       s.calls[i].op = "setFrameType" =>
         /\ s.calls[i].arg = <<s.mode_name>>
         /\ s.calls[i].arg # <<s.frame_type>>
  /\ ArgsOf(run, "setFrameType") = ArgsOf(twin, "setFrameType")

C10_Witness ==
  /\ Len(CallsOf(run, "setFrameType")) = 1
  /\ Len(CallsOf(twin, "setFrameType")) = 1
  /\ run.args.frame_type = "depth"
  /\ run.frame_type = "ir"
  /\ twin.args.frame_type = "ir"

\* lines 94-99 have been executed
FirmwareStepDone(s) ==
  s.pc = "L101" \/ Len(CallsOf(s, "getAvailableFrameTypes")) > 0

CountPrinted(s, msg) == Cardinality({i \in 1..Len(s.out) : s.out[i] = msg})

C12_RequestNeverMutated ==
  [][run'.args = run.args]_vars

C12_Witness ==
  /\ run.pc = "exit"
  /\ run.frame_type = "ir"
  /\ run.args.frame_type = "conf"
  /\ run.args.firmware = "fw.bin"

\* position of a provider call in the order of the source lines 75-130
CallRank(c) ==
  CASE c.op = "getCameraList" -> 1
    [] c.op = "initialize" -> IF c.arg = <<>> THEN 3 ELSE 2
    [] c.op = "getDetails" -> 4
    [] c.op = "adsd3500UpdateFirmware" -> 5
    [] c.op = "getAvailableFrameTypes" -> 6
    [] c.op = "getFrameTypeNameFromId" -> 7
    [] c.op = "enableDepthCompute" -> 8
    [] c.op = "setFrameType" -> 9
    [] c.op = "start" -> 10

\* position of a label in the source; the two ways a run ends come last
PcRank(p) ==
  CASE p = "L69" -> 1 [] p = "L74" -> 2 [] p = "L79" -> 3 [] p = "L80" -> 4
    [] p = "L84" -> 5 [] p = "L88" -> 6 [] p = "L94" -> 7 [] p = "L101" -> 8
    [] p = "L108" -> 9 [] p = "L109" -> 10 [] p = "L116" -> 11
    [] p = "L118" -> 12 [] p = "L121" -> 13 [] p = "L126" -> 14
    [] p = "L130" -> 15 [] p = "L134" -> 16 [] p \in {"exit", "raised"} -> 17

\* C13: the provider calls made so far are in the order discovery,
\* initialize(config), initialize(), getDetails, firmware update,
\* getAvailableFrameTypes, mode-name resolution, enableDepthCompute,
\* setFrameType, start; a start call has a setFrameType call before it; and
\* 'Done' is printed only when start has been called.
C13_FixedCallOrder ==
  /\ \A i \in 1..(Len(run.calls) - 1) :
       CallRank(run.calls[i]) <= CallRank(run.calls[i + 1])
  /\ \A i \in 1..Len(run.calls) :
       run.calls[i].op = "start" =>
         \E j \in 1..(i - 1) : run.calls[j].op = "setFrameType"
  /\ Printed(run, "Done") => Len(CallsOf(run, "start")) > 0

C13_Witness ==
  /\ run.pc = "exit"
  /\ Len(run.calls) = 10
  /\ Printed(run, "Done")

\* C14: every step moves the run forward in the source (no loop, no retry),
\* each provider operation is called at most once, initialize at most twice,
\* and the run ends (at line 134 or by an uncaught exception).
C14_SingleLinearPass ==
  /\ [][PcRank(run'.pc) > PcRank(run.pc)]_vars
  /\ [](\A op \in StatusOps \cup {"adsd3500UpdateFirmware", "enableDepthCompute"} :
         Len(CallsOf(run, op)) <= IF op = "initialize" THEN 2 ELSE 1)
  /\ <>Terminated(run)

C14_Witness ==
  /\ run.pc = "exit"
  /\ Len(CallsOf(run, "initialize")) = 2
  /\ Len(CallsOf(run, "start")) = 1
  /\ ~CallsOf(run, "start")[1].ret

\* C15: every call on a camera is made on one and the same handle, the
\* first entry of the list getCameraList filled, whatever the length of the
\* list and the status of the discovery; getCameraList is made on the system.
C15_FirstCameraOnly ==
  \A i \in 1..Len(run.calls) :
    IF run.calls[i].op = "getCameraList"
    THEN run.calls[i].on = "system"
    ELSE run.calls[i].on = run.cameras[1] /\ run.camera1 = run.cameras[1]

C15_Witness ==
  /\ run.pc = "exit"
  /\ Len(run.cameras) = 2
  /\ ~CallsOf(run, "getCameraList")[1].ret
  /\ Len(run.calls) = 10

\* the provider calls other than the frame-type capability query
OtherCalls(s) == SelectSeq(s.calls, LAMBDA c : c.op # "getAvailableFrameTypes")

\* C16: after the capability query, 'Cound not aquire frame types' is
\* printed exactly when the status is failing or the list is empty (and the
\* list is reported otherwise); two runs of one request that get different
\* answers to this query and the same answers otherwise make the same other
\* provider calls, pick the same mode name and end with the same effective
\* frame type at the same place.
C16_FrameTypeQueryAdvisory ==
  /\ \A s \in {run, twin} :
       LET q == CallsOf(s, "getAvailableFrameTypes")
           warned == Printed(s, "Cound not aquire frame types")
           listed == Printed(s, "available frame_types")
       IN IF Len(q) = 0 THEN ~warned /\ ~listed
          ELSE /\ warned <=> (~q[1].ret \/ Len(s.frame_types) = 0)
               /\ listed <=> ~warned
  /\ OtherCalls(run) = OtherCalls(twin)
  /\ run.pc = twin.pc
  /\ run.mode_name = twin.mode_name
  /\ run.frame_type = twin.frame_type

C16_Witness ==
  /\ run.pc = "exit" /\ twin.pc = "exit"
  /\ CallsOf(run, "getAvailableFrameTypes")[1].ret /\ run.frame_types = <<>>
  /\ Printed(run, "Cound not aquire frame types")
  /\ Printed(twin, "available frame_types")
  /\ run.args.frame_type = "conf" /\ run.frame_type = "ir"

\* C17: enableDepthCompute is called only with False and only for a request
\* of raw, and for a request of raw it has been called once the adjustment
\* is reached, before the override is decided: with raw and the mode name
\* pcm-native the call is made and the effective frame type is ir as well.
C17_DepthComputeOnRequestedType ==
  LET dc == CallsOf(run, "enableDepthCompute")
  IN /\ \A i \in 1..Len(dc) : dc[i].arg = <<FALSE>> /\ run.args.frame_type = "raw"
     /\ run.args.frame_type # "raw" => Len(dc) = 0
     /\ (run.frame_type # Unbound /\ run.args.frame_type = "raw") => Len(dc) = 1
     /\ (AdjustDone(run) /\ run.args.frame_type = "raw" /\ run.mode_name = "pcm-native")
          => Len(dc) = 1 /\ run.frame_type = "ir"

C17_Witness ==
  /\ run.pc = "L126"
  /\ run.args.frame_type = "raw"
  /\ run.mode_name = "pcm-native"
  /\ run.frame_type = "ir"
  /\ Len(CallsOf(run, "enableDepthCompute")) = 1
====
